---- MODULE Spec2Model ----
(***************************************************************************)
(* Model of src/app.py: the auto-mix request (vocal + accompaniment "MR")  *)
(* and the field-recording cleanup request of main(), with the two thread  *)
(* pools of the auto-mix request, and the two pure helpers                 *)
(* ai_optimize_parameters and ai_optimize_beat_alignment.                  *)
(*                                                                         *)
(* Representation.  A pydub AudioSegment is represented by its len(), an   *)
(* integer number of milliseconds, and by the list of effects applied to   *)
(* it.  A float (an offset in seconds) is an exact rational <<num, den>>   *)
(* with den > 0; the inputs are chosen so that the float computation of    *)
(* the code is exact on them.  A loudness (dBFS) is an integer number of   *)
(* 1/DbScale dB.  A boost factor is an integer number of tenths.           *)
(* Segments are mono (spec section 3), so every effect keeps the length.   *)
(***************************************************************************)
EXTENDS Integers, Sequences, FiniteSets, TLC

VARIABLES
    mode,            \* st.radio choice: "mix" or "festival"
    nr_available,    \* FALSE when `import noisereduce` failed (nr is None)
    pc,              \* position of main()
    task,            \* state of each future of the two thread pools
    val_int,         \* result held by each decode future (sample rate / length in ms)
    val_beats,       \* result held by each beat-analysis future (beat frames)
    pending_exc,     \* stage whose exception is propagating out of a with-block
    vocal_sr, mr_sr,
    vocal_audio, mr_audio,      \* len() in ms, -1 before assignment
    vocal_beats, mr_beats,
    offset,          \* <<num, den>>, den = 0 before assignment
    vocal_fx, mr_fx, \* effects applied to the segment held by vocal_audio / mr_audio
    vocal_adjusted, mr_adjusted,
    recon,           \* len(vocal_audio), len(mr_audio) as read at line 207, and repeat_times
    mixed_audio,     \* len() in ms of the overlay, -1 before assignment
    processed_fx,    \* effects applied by process_festival_audio
    ui,              \* messages shown with st.write / st.warning / st.error
    emitted,         \* outputs shown: "audio" (st.audio), "download" (st.download_button)
    stages,          \* main()'s completed steps, in order
    failedAt,        \* stage whose exception reached main()'s except clause
    fn_pc, fn_in, fn_out   \* call of a pure helper on its own (SpecParams, SpecAlign)

vars == <<mode, nr_available, pc, task, val_int, val_beats, pending_exc,
          vocal_sr, mr_sr, vocal_audio, mr_audio, vocal_beats, mr_beats, offset,
          vocal_fx, mr_fx, vocal_adjusted, mr_adjusted, recon, mixed_audio, processed_fx,
          ui, emitted, stages, failedAt, fn_pc, fn_in, fn_out>>

pipeVars == <<mode, nr_available, pc, task, val_int, val_beats, pending_exc,
          vocal_sr, mr_sr, vocal_audio, mr_audio, vocal_beats, mr_beats, offset,
          vocal_fx, mr_fx, vocal_adjusted, mr_adjusted, recon, mixed_audio, processed_fx,
          ui, emitted, stages, failedAt>>

fnVars == <<fn_pc, fn_in, fn_out>>

----------------------------------------------------------------------------
(* Bounds of the model *)

DbScale == 10          \* loudness resolution: units per dB
MaxDb == 60            \* loudness range of SpecParams: -MaxDb .. MaxDb/3 dB
MaxSegSec == 10        \* longest decoded segment, seconds
MaxBeatSec == 6        \* latest first beat of the pipeline's inputs: frame 44100 * MaxBeatSec
MaxFrame == 12         \* SpecAlign: beat frames 0 .. MaxFrame
MaxRate == 3           \* SpecAlign: sample rates 1 .. MaxRate

(* Program constants *)

ClampSec == 5          \* ai_optimize_beat_alignment: max(min(offset, 5), -5)
BassCutoff == 150      \* apply_bass_boost(..., cutoff=150)
MrGain == -3           \* mr_audio.apply_gain(-3)
VocalGain == 0         \* vocal_audio.apply_gain(0)

----------------------------------------------------------------------------
(* Inputs *)

SampleRates == {22050, 44100}
SegLens == {0, 300, 500, 4000, MaxSegSec * 1000}
BeatTracks == {<<>>, <<0>>, <<1>>, <<22050>>, <<22050, 44100>>, <<44100 * MaxBeatSec>>}
\* dBFS of the segment handed to an effect chain; -1000 dB stands for -inf (silence)
Loudness == {-1000 * DbScale, -30 * DbScale - 1, -30 * DbScale, -20 * DbScale - 1,
             -20 * DbScale, -3 * DbScale}

DecodeTasks == {"vocal_lib", "mr_lib", "vocal_pydub", "mr_pydub"}
BeatTasks == {"vocal_beats", "mr_beats"}
Tasks == DecodeTasks \cup BeatTasks

NoOffset == <<0, 0>>
NoSegment == [len |-> -1, gain |-> 0]

----------------------------------------------------------------------------
(* Arithmetic *)

Min(a, b) == IF a <= b THEN a ELSE b
Max(a, b) == IF a >= b THEN a ELSE b

\* Python int(x) of the rational n/d, d > 0: truncation toward zero
TruncDiv(n, d) == IF n >= 0 THEN n \div d ELSE -((-n) \div d)

\* int(offset * 1000)
OffsetMs(off) == TruncDiv(off[1] * 1000, off[2])

\* exact rationals <<num, den>> in lowest terms, den > 0
RECURSIVE GCD(_, _)
GCD(a, b) == IF b = 0 THEN a ELSE GCD(b, a % b)
Abs(n) == IF n >= 0 THEN n ELSE -n
RatNorm(n, d) == LET g == GCD(Abs(n), d) IN <<n \div g, d \div g>>
Rat(n) == <<n, 1>>
RatSub(a, b) ==
    LET l == (a[2] \div GCD(a[2], b[2])) * b[2]
    IN  RatNorm(a[1] * (l \div a[2]) - b[1] * (l \div b[2]), l)
RatLess(a, b) == a[1] * b[2] < b[1] * a[2]
RatMin(a, b) == IF RatLess(b, a) THEN b ELSE a      \* Python min(a, b)
RatMax(a, b) == IF RatLess(a, b) THEN b ELSE a      \* Python max(a, b)

----------------------------------------------------------------------------
(* The pure helpers *)

\* ai_optimize_parameters with a defect: the first threshold taken with <=
ai_optimize_parameters_le(audio_seg) ==
    IF audio_seg.raises THEN [boost_factor |-> 15, lowpass_cutoff |-> 4000]
    ELSE IF audio_seg.dBFS <= -30 * DbScale THEN [boost_factor |-> 20, lowpass_cutoff |-> 3500]
    ELSE IF audio_seg.dBFS < -20 * DbScale THEN [boost_factor |-> 18, lowpass_cutoff |-> 4000]
    ELSE [boost_factor |-> 15, lowpass_cutoff |-> 4500]

\* ai_optimize_parameters: audio_seg.dBFS either raises or is a loudness
ai_optimize_parameters(audio_seg) ==
    IF audio_seg.raises THEN [boost_factor |-> 15, lowpass_cutoff |-> 4000]
    ELSE IF audio_seg.dBFS < -30 * DbScale THEN [boost_factor |-> 20, lowpass_cutoff |-> 3500]
    ELSE IF audio_seg.dBFS < -20 * DbScale THEN [boost_factor |-> 18, lowpass_cutoff |-> 4000]
    ELSE [boost_factor |-> 15, lowpass_cutoff |-> 4500]

\* ai_optimize_beat_alignment with a defect: the lower clamp left out
ai_optimize_beat_alignment_noclamp(vocal_beats_, vocal_sr_, mr_beats_, mr_sr_) ==
    IF Len(mr_beats_) = 0 \/ Len(vocal_beats_) = 0 \/ mr_sr_ = 0 \/ vocal_sr_ = 0
    THEN Rat(0)
    ELSE RatMin(RatSub(RatNorm(mr_beats_[1], mr_sr_), RatNorm(vocal_beats_[1], vocal_sr_)),
                Rat(ClampSec))

\* ai_optimize_beat_alignment: an IndexError (an empty beat sequence) or a
\* ZeroDivisionError inside the try block returns 0
ai_optimize_beat_alignment(vocal_beats_, vocal_sr_, mr_beats_, mr_sr_) ==
    IF Len(mr_beats_) = 0 \/ Len(vocal_beats_) = 0 \/ mr_sr_ = 0 \/ vocal_sr_ = 0
    THEN Rat(0)
    ELSE LET raw == RatSub(RatNorm(mr_beats_[1], mr_sr_), RatNorm(vocal_beats_[1], vocal_sr_))
         IN  RatMax(RatMin(raw, Rat(ClampSec)), Rat(-ClampSec))

\* EffectChain with a defect: the bass boost applied before the compression
EffectChain_boost_first(params) ==
    << [op |-> "normalize", cutoff |-> 0, factor |-> 0],
       [op |-> "low_pass_filter", cutoff |-> params.lowpass_cutoff, factor |-> 0],
       [op |-> "apply_bass_boost", cutoff |-> BassCutoff, factor |-> params.boost_factor],
       [op |-> "compress_dynamic_range", cutoff |-> 0, factor |-> 0],
       [op |-> "normalize", cutoff |-> 0, factor |-> 0] >>

\* The effects of process_vocal_audio, in order
EffectChain(params) ==
    << [op |-> "normalize", cutoff |-> 0, factor |-> 0],
       [op |-> "low_pass_filter", cutoff |-> params.lowpass_cutoff, factor |-> 0],
       [op |-> "compress_dynamic_range", cutoff |-> 0, factor |-> 0],
       [op |-> "apply_bass_boost", cutoff |-> BassCutoff, factor |-> params.boost_factor],
       [op |-> "normalize", cutoff |-> 0, factor |-> 0] >>

\* The effects of process_festival_audio after nr.reduce_noise, in order
FestivalChain(params) ==
    << [op |-> "reduce_noise", cutoff |-> 0, factor |-> 0],
       [op |-> "normalize", cutoff |-> 0, factor |-> 0],
       [op |-> "low_pass_filter", cutoff |-> params.lowpass_cutoff, factor |-> 0],
       [op |-> "compress_dynamic_range", cutoff |-> 0, factor |-> 0],
       [op |-> "fade", cutoff |-> 0, factor |-> 0],
       [op |-> "apply_bass_boost", cutoff |-> BassCutoff, factor |-> params.boost_factor],
       [op |-> "normalize", cutoff |-> 0, factor |-> 0] >>

\* process_vocal_audio on a segment of loudness d: the chain it applies
process_vocal_audio(d) == EffectChain(ai_optimize_parameters([raises |-> FALSE, dBFS |-> d]))

----------------------------------------------------------------------------
(* main(): statement order *)

MixOrder ==
    << "read",
       "submit_vocal_lib", "submit_mr_lib", "submit_vocal_pydub", "submit_mr_pydub",
       "join_vocal_lib", "join_mr_lib", "join_vocal_pydub", "join_mr_pydub",
       "exit_decode_pool",
       "submit_vocal_beats", "submit_mr_beats", "join_vocal_beats", "join_mr_beats",
       "exit_beats_pool",
       "align", "vocal_fx", "reconcile", "gain", "overlay", "normalize",
       "export", "st_audio", "st_download", "done" >>

FestivalOrder ==
    << "read", "f_load", "f_process", "export", "st_audio", "st_download", "done" >>

Order == IF mode = "mix" THEN MixOrder ELSE FestivalOrder

IndexOf(seq, x) == CHOOSE i \in 1..Len(seq) : seq[i] = x

\* NextPc with a defect: the results of the decode pool are not awaited
NextPc_nojoin(p) ==
    IF mode = "mix" /\ p = "submit_mr_pydub" THEN "submit_vocal_beats"
    ELSE Order[IndexOf(Order, p) + 1]

\* the statement after statement p
NextPc(p) == Order[IndexOf(Order, p) + 1]

SubmitAt == [vocal_lib |-> "submit_vocal_lib", mr_lib |-> "submit_mr_lib",
             vocal_pydub |-> "submit_vocal_pydub", mr_pydub |-> "submit_mr_pydub",
             vocal_beats |-> "submit_vocal_beats", mr_beats |-> "submit_mr_beats"]
JoinAt ==   [vocal_lib |-> "join_vocal_lib", mr_lib |-> "join_mr_lib",
             vocal_pydub |-> "join_vocal_pydub", mr_pydub |-> "join_mr_pydub",
             vocal_beats |-> "join_vocal_beats", mr_beats |-> "join_mr_beats"]

\* the with-block (thread pool) a future belongs to, its exit and its stage
PoolExit(t) == IF t \in DecodeTasks THEN "exit_decode_pool" ELSE "exit_beats_pool"
PoolOf(p) == IF p = "exit_decode_pool" THEN DecodeTasks ELSE BeatTasks
StageOf(t) == IF t \in DecodeTasks THEN "decode" ELSE "beats"

\* Future.result() returns or raises once the task has finished
FutureDone(t) == task[t] \in {"ok", "raised"}

\* ThreadPoolExecutor.__exit__: shutdown(wait=True)
PoolJoined(ts) == \A t \in ts : task[t] # "pending"

\* ExceptTarget with a defect: the exception is swallowed and main() goes on
ExceptTarget_swallow(next) == next

\* `except Exception as e: st.error(...)`: where main() is after an exception
\* raised by the statement before `next`
ExceptTarget(next) == "error"

\* AlignGuard with a defect: `or` for `and`
AlignGuard_or(vb, mb) == Len(vb) > 0 \/ Len(mb) > 0

\* `if len(vocal_beats) > 0 and len(mr_beats) > 0`
AlignGuard(vb, mb) == Len(vb) > 0 /\ Len(mb) > 0

\* TrimFits with a defect: <= for <
TrimFits_le(trim_ms, len) == trim_ms <= len

\* `if trim_ms < len(vocal_audio)`
TrimFits(trim_ms, len) == trim_ms < len

\* NoiseReducerMissing with a defect: the check of nr left out
NoiseReducerMissing_unchecked == FALSE

\* `if nr is None`
NoiseReducerMissing == ~nr_available

Log == stages' = Append(stages, pc)

\* the exception of stage `stage` reaches the except clause of main()
Except(stage, msgs) ==
    /\ pc' = ExceptTarget(NextPc(pc))
    /\ failedAt' = stage
    /\ ui' = ui \cup msgs \cup {"err_request"}

----------------------------------------------------------------------------
(* Initial state: the script has been imported, a mode is chosen and the   *)
(* files of the request are uploaded                                      *)

InitPipe(p) ==
    /\ mode \in {"mix", "festival"}
    /\ nr_available \in BOOLEAN
    /\ pc = p
    /\ task = [t \in Tasks |-> "none"]
    /\ val_int = [t \in DecodeTasks |-> -1]
    /\ val_beats = [t \in BeatTasks |-> <<>>]
    /\ pending_exc = "none"
    /\ vocal_sr = -1 /\ mr_sr = -1
    /\ vocal_audio = -1 /\ mr_audio = -1
    /\ vocal_beats = <<>> /\ mr_beats = <<>>
    /\ offset = NoOffset
    /\ vocal_fx = <<>> /\ mr_fx = <<>>
    /\ vocal_adjusted = NoSegment /\ mr_adjusted = NoSegment
    /\ recon = [vocal |-> -1, mr |-> -1, repeat_times |-> 0]
    /\ mixed_audio = -1
    /\ processed_fx = <<>>
    /\ ui = IF nr_available THEN {} ELSE {"err_nr_missing"}
    /\ emitted = {}
    /\ stages = <<>>
    /\ failedAt = "none"

Init ==
    /\ InitPipe("read")
    /\ fn_pc = "idle" /\ fn_in = <<>> /\ fn_out = <<>>

----------------------------------------------------------------------------
(* main(), both modes *)

\* vocal_file.read() / mr_file.read()
ReadFiles ==
    /\ pc = "read"
    /\ pc' = NextPc(pc)
    /\ Log
    /\ UNCHANGED <<mode, nr_available, task, val_int, val_beats, pending_exc,
          vocal_sr, mr_sr, vocal_audio, mr_audio, vocal_beats, mr_beats, offset,
          vocal_fx, mr_fx, vocal_adjusted, mr_adjusted, mixed_audio, processed_fx,
          ui, emitted, failedAt, recon, fnVars>>

\* executor.submit(...)
Submit(t) ==
    /\ mode = "mix"
    /\ pc = SubmitAt[t]
    /\ task' = [task EXCEPT ![t] = "pending"]
    /\ pc' = NextPc(pc)
    /\ Log
    /\ UNCHANGED <<mode, nr_available, val_int, val_beats, pending_exc,
          vocal_sr, mr_sr, vocal_audio, mr_audio, vocal_beats, mr_beats, offset,
          vocal_fx, mr_fx, vocal_adjusted, mr_adjusted, mixed_audio, processed_fx,
          ui, emitted, failedAt, recon, fnVars>>

workerUnchanged == <<mode, nr_available, pc, pending_exc,
          vocal_sr, mr_sr, vocal_audio, mr_audio, vocal_beats, mr_beats, offset,
          vocal_fx, mr_fx, vocal_adjusted, mr_adjusted, mixed_audio, processed_fx,
          emitted, stages, failedAt, recon, fnVars>>

\* a pool thread runs load_librosa_audio
load_librosa_audio(t) ==
    /\ t \in {"vocal_lib", "mr_lib"}
    /\ task[t] = "pending"
    /\ \/ \E sr \in SampleRates :
             /\ task' = [task EXCEPT ![t] = "ok"]
             /\ val_int' = [val_int EXCEPT ![t] = sr]
             /\ ui' = ui
       \/ /\ task' = [task EXCEPT ![t] = "raised"]
          /\ ui' = ui \cup {"err_librosa"}
          /\ val_int' = val_int
    /\ UNCHANGED <<val_beats, workerUnchanged>>

\* a pool thread runs load_pydub_audio
load_pydub_audio(t) ==
    /\ t \in {"vocal_pydub", "mr_pydub"}
    /\ task[t] = "pending"
    /\ \/ \E len \in SegLens :
             /\ task' = [task EXCEPT ![t] = "ok"]
             /\ val_int' = [val_int EXCEPT ![t] = len]
             /\ ui' = ui
       \/ /\ task' = [task EXCEPT ![t] = "raised"]
          /\ ui' = ui \cup {"err_pydub"}
          /\ val_int' = val_int
    /\ UNCHANGED <<val_beats, workerUnchanged>>

\* a pool thread runs compute_beats: librosa.beat.beat_track returns beats
\* (possibly none) or raises, and compute_beats re-raises
compute_beats(t) ==
    /\ t \in BeatTasks
    /\ task[t] = "pending"
    /\ \/ \E b \in BeatTracks :
             /\ task' = [task EXCEPT ![t] = "ok"]
             /\ val_beats' = [val_beats EXCEPT ![t] = b]
             /\ ui' = ui
       \/ /\ task' = [task EXCEPT ![t] = "raised"]
          /\ ui' = ui \cup {"err_beats"}
          /\ val_beats' = val_beats
    /\ UNCHANGED <<val_int, workerUnchanged>>

\* x = future.result(): blocks until the task has finished, then assigns
\* or lets the task's exception leave the with-block
Result(t) ==
    /\ pc = JoinAt[t]
    /\ FutureDone(t)
    /\ LET ok == task[t] # "raised" IN
       /\ pc' = IF ok THEN NextPc(pc) ELSE PoolExit(t)
       /\ pending_exc' = IF ok THEN pending_exc ELSE StageOf(t)
       /\ vocal_sr' = IF ok /\ t = "vocal_lib" THEN val_int[t] ELSE vocal_sr
       /\ mr_sr' = IF ok /\ t = "mr_lib" THEN val_int[t] ELSE mr_sr
       /\ vocal_audio' = IF ok /\ t = "vocal_pydub" THEN val_int[t] ELSE vocal_audio
       /\ mr_audio' = IF ok /\ t = "mr_pydub" THEN val_int[t] ELSE mr_audio
       /\ vocal_beats' = IF ok /\ t = "vocal_beats" THEN val_beats[t] ELSE vocal_beats
       /\ mr_beats' = IF ok /\ t = "mr_beats" THEN val_beats[t] ELSE mr_beats
    /\ Log
    /\ UNCHANGED <<mode, nr_available, task, val_int, val_beats, offset,
          vocal_fx, mr_fx, vocal_adjusted, mr_adjusted, mixed_audio, processed_fx,
          ui, emitted, failedAt, recon, fnVars>>

\* the end of a `with ThreadPoolExecutor() as executor:` block
ExitPool(p) ==
    /\ pc = p
    /\ PoolJoined(PoolOf(p))
    /\ IF pending_exc # "none"
       THEN Except(pending_exc, {})
       ELSE pc' = NextPc(pc) /\ UNCHANGED <<ui, failedAt>>
    /\ pending_exc' = "none"
    /\ Log
    /\ UNCHANGED <<mode, nr_available, task, val_int, val_beats,
          vocal_sr, mr_sr, vocal_audio, mr_audio, vocal_beats, mr_beats, offset,
          vocal_fx, mr_fx, vocal_adjusted, mr_adjusted, mixed_audio, processed_fx,
          emitted, recon, fnVars>>

\* lines 189-202: beat alignment of the vocal, or the "skipped" warning
Align ==
    /\ pc = "align"
    /\ IF AlignGuard(vocal_beats, mr_beats)
       THEN LET off == ai_optimize_beat_alignment(vocal_beats, vocal_sr, mr_beats, mr_sr)
                trim_ms == -OffsetMs(off)
            IN  /\ offset' = off
                /\ IF RatLess(Rat(0), off)
                   THEN \* silence + vocal_audio
                        /\ vocal_audio' = OffsetMs(off) + vocal_audio
                        /\ ui' = ui \cup {"offset_written"}
                   ELSE IF RatLess(off, Rat(0))
                   THEN IF TrimFits(trim_ms, vocal_audio)
                        THEN \* vocal_audio[trim_ms:]
                             /\ vocal_audio' = vocal_audio - trim_ms
                             /\ ui' = ui \cup {"offset_written"}
                        ELSE /\ vocal_audio' = vocal_audio
                             /\ ui' = ui \cup {"offset_written", "warn_short_vocal"}
                   ELSE /\ vocal_audio' = vocal_audio
                        /\ ui' = ui \cup {"offset_written"}
       ELSE /\ ui' = ui \cup {"warn_beat_skip"}
            /\ UNCHANGED <<offset, vocal_audio>>
    /\ pc' = NextPc(pc)
    /\ Log
    /\ UNCHANGED <<mode, nr_available, task, val_int, val_beats, pending_exc,
          vocal_sr, mr_sr, mr_audio, vocal_beats, mr_beats,
          vocal_fx, mr_fx, vocal_adjusted, mr_adjusted, mixed_audio, processed_fx,
          emitted, failedAt, recon, fnVars>>

\* lines 204-205: vocal_audio = process_vocal_audio(vocal_audio)
ProcessVocal ==
    /\ pc = "vocal_fx"
    /\ \/ \E d \in Loudness :
             /\ vocal_fx' = vocal_fx \o process_vocal_audio(d)
             /\ pc' = NextPc(pc)
             /\ UNCHANGED <<ui, failedAt>>
       \/ \* an effect or apply_bass_boost raises; process_vocal_audio re-raises
          /\ Except("vocal_fx", {"err_vocal_fx"})
          /\ vocal_fx' = vocal_fx
    /\ Log
    /\ UNCHANGED <<mode, nr_available, task, val_int, val_beats, pending_exc,
          vocal_sr, mr_sr, vocal_audio, mr_audio, vocal_beats, mr_beats, offset,
          mr_fx, vocal_adjusted, mr_adjusted, mixed_audio, processed_fx,
          emitted, recon, fnVars>>

\* lines 207-212: length reconciliation
Reconcile ==
    /\ pc = "reconcile"
    /\ IF vocal_audio > mr_audio
       THEN IF mr_audio = 0
            THEN \* len(vocal_audio) // len(mr_audio): ZeroDivisionError
                 /\ Except("reconcile", {})
                 /\ recon' = [vocal |-> vocal_audio, mr |-> mr_audio, repeat_times |-> 0]
                 /\ UNCHANGED <<vocal_audio, mr_audio>>
            ELSE LET repeat_times == (vocal_audio \div mr_audio) + 1
                 IN  \* (mr_audio * repeat_times)[:len(vocal_audio)]
                     /\ recon' = [vocal |-> vocal_audio, mr |-> mr_audio, repeat_times |-> repeat_times]
                     /\ mr_audio' = Min(mr_audio * repeat_times, vocal_audio)
                     /\ vocal_audio' = vocal_audio
                     /\ pc' = NextPc(pc)
                     /\ UNCHANGED <<ui, failedAt>>
       ELSE /\ IF mr_audio > vocal_audio
               THEN \* vocal_audio + silence
                    vocal_audio' = vocal_audio + (mr_audio - vocal_audio)
               ELSE vocal_audio' = vocal_audio
            /\ mr_audio' = mr_audio
            /\ recon' = [vocal |-> vocal_audio, mr |-> mr_audio, repeat_times |-> 0]
            /\ pc' = NextPc(pc)
            /\ UNCHANGED <<ui, failedAt>>
    /\ Log
    /\ UNCHANGED <<mode, nr_available, task, val_int, val_beats, pending_exc,
          vocal_sr, mr_sr, vocal_beats, mr_beats, offset,
          vocal_fx, mr_fx, vocal_adjusted, mr_adjusted, mixed_audio, processed_fx,
          emitted, fnVars>>

\* lines 214-215: apply_gain
Gain ==
    /\ pc = "gain"
    /\ vocal_adjusted' = [len |-> vocal_audio, gain |-> VocalGain]
    /\ mr_adjusted' = [len |-> mr_audio, gain |-> MrGain]
    /\ pc' = NextPc(pc)
    /\ Log
    /\ UNCHANGED <<mode, nr_available, task, val_int, val_beats, pending_exc,
          vocal_sr, mr_sr, vocal_audio, mr_audio, vocal_beats, mr_beats, offset,
          vocal_fx, mr_fx, mixed_audio, processed_fx,
          ui, emitted, failedAt, recon, fnVars>>

\* line 217: mr_adjusted.overlay(vocal_adjusted) has the length of mr_adjusted
Overlay ==
    /\ pc = "overlay"
    /\ mixed_audio' = mr_adjusted.len
    /\ pc' = NextPc(pc)
    /\ Log
    /\ UNCHANGED <<mode, nr_available, task, val_int, val_beats, pending_exc,
          vocal_sr, mr_sr, vocal_audio, mr_audio, vocal_beats, mr_beats, offset,
          vocal_fx, mr_fx, vocal_adjusted, mr_adjusted, processed_fx,
          ui, emitted, failedAt, recon, fnVars>>

\* line 218: effects.normalize(mixed_audio)
Normalize ==
    /\ pc = "normalize"
    /\ pc' = NextPc(pc)
    /\ Log
    /\ UNCHANGED <<mode, nr_available, task, val_int, val_beats, pending_exc,
          vocal_sr, mr_sr, vocal_audio, mr_audio, vocal_beats, mr_beats, offset,
          vocal_fx, mr_fx, vocal_adjusted, mr_adjusted, mixed_audio, processed_fx,
          ui, emitted, failedAt, recon, fnVars>>

\* lines 220-222 and 249-251: export to mp3, which may raise
Export ==
    /\ pc = "export"
    /\ \/ pc' = NextPc(pc) /\ UNCHANGED <<ui, failedAt>>
       \/ Except("export", {})
    /\ Log
    /\ UNCHANGED <<mode, nr_available, task, val_int, val_beats, pending_exc,
          vocal_sr, mr_sr, vocal_audio, mr_audio, vocal_beats, mr_beats, offset,
          vocal_fx, mr_fx, vocal_adjusted, mr_adjusted, mixed_audio, processed_fx,
          emitted, recon, fnVars>>

\* lines 224 and 253: st.audio
StAudio ==
    /\ pc = "st_audio"
    /\ emitted' = emitted \cup {"audio"}
    /\ pc' = NextPc(pc)
    /\ Log
    /\ UNCHANGED <<mode, nr_available, task, val_int, val_beats, pending_exc,
          vocal_sr, mr_sr, vocal_audio, mr_audio, vocal_beats, mr_beats, offset,
          vocal_fx, mr_fx, vocal_adjusted, mr_adjusted, mixed_audio, processed_fx,
          ui, failedAt, recon, fnVars>>

\* lines 225-230 and 254-259: st.download_button
StDownload ==
    /\ pc = "st_download"
    /\ emitted' = emitted \cup {"download"}
    /\ pc' = NextPc(pc)
    /\ Log
    /\ UNCHANGED <<mode, nr_available, task, val_int, val_beats, pending_exc,
          vocal_sr, mr_sr, vocal_audio, mr_audio, vocal_beats, mr_beats, offset,
          vocal_fx, mr_fx, vocal_adjusted, mr_adjusted, mixed_audio, processed_fx,
          ui, failedAt, recon, fnVars>>

\* lines 243-244: load_librosa_audio called by main() in the cleanup mode
FestivalLoad ==
    /\ pc = "f_load"
    /\ \/ \E sr \in SampleRates :
             /\ vocal_sr' = sr
             /\ pc' = NextPc(pc)
             /\ UNCHANGED <<ui, failedAt>>
       \/ /\ Except("decode", {"err_librosa"})
          /\ vocal_sr' = vocal_sr
    /\ Log
    /\ UNCHANGED <<mode, nr_available, task, val_int, val_beats, pending_exc,
          mr_sr, vocal_audio, mr_audio, vocal_beats, mr_beats, offset,
          vocal_fx, mr_fx, vocal_adjusted, mr_adjusted, mixed_audio, processed_fx,
          emitted, recon, fnVars>>

\* lines 246-247: process_festival_audio, which raises ImportError when nr is
\* None, and re-raises what noise reduction, conversion or an effect raises
process_festival_audio ==
    /\ pc = "f_process"
    /\ IF NoiseReducerMissing
       THEN /\ Except("festival_fx", {"err_festival"})
            /\ processed_fx' = processed_fx
       ELSE \/ \E d \in Loudness :
                  /\ processed_fx' = FestivalChain(
                         ai_optimize_parameters([raises |-> FALSE, dBFS |-> d]))
                  /\ pc' = NextPc(pc)
                  /\ UNCHANGED <<ui, failedAt>>
            \/ /\ Except("festival_fx", {"err_festival"})
               /\ processed_fx' = processed_fx
    /\ Log
    /\ UNCHANGED <<mode, nr_available, task, val_int, val_beats, pending_exc,
          vocal_sr, mr_sr, vocal_audio, mr_audio, vocal_beats, mr_beats, offset,
          vocal_fx, mr_fx, vocal_adjusted, mr_adjusted, mixed_audio,
          emitted, recon, fnVars>>

Next ==
    \/ ReadFiles
    \/ \E t \in Tasks : Submit(t)
    \/ \E t \in Tasks : load_librosa_audio(t)
    \/ \E t \in Tasks : load_pydub_audio(t)
    \/ \E t \in Tasks : compute_beats(t)
    \/ \E t \in Tasks : Result(t)
    \/ ExitPool("exit_decode_pool")
    \/ ExitPool("exit_beats_pool")
    \/ Align
    \/ ProcessVocal
    \/ Reconcile
    \/ Gain
    \/ Overlay
    \/ Normalize
    \/ Export
    \/ StAudio
    \/ StDownload
    \/ FestivalLoad
    \/ process_festival_audio

Spec == Init /\ [][Next]_vars

----------------------------------------------------------------------------
(* The pure helpers called on their own *)

DbRange == ((-MaxDb * DbScale) .. ((MaxDb \div 3) * DbScale))
               \cup {-1000 * DbScale, 1000 * DbScale}
ParamInputs == {[raises |-> FALSE, dBFS |-> d] : d \in DbRange}
                   \cup {[raises |-> TRUE, dBFS |-> 0]}

InitParams ==
    /\ InitPipe("idle") /\ mode = "mix" /\ nr_available
    /\ fn_pc = "call" /\ fn_in \in ParamInputs /\ fn_out = <<>>

CallParams ==
    /\ fn_pc = "call"
    /\ fn_out' = ai_optimize_parameters(fn_in)
    /\ fn_pc' = "ret"
    /\ UNCHANGED <<fn_in, pipeVars>>

NextParams == CallParams

SpecParams == InitParams /\ [][NextParams]_vars

BeatSeqs == {<<>>} \cup {<<f>> : f \in 0..MaxFrame} \cup {<<MaxFrame, MaxFrame + 1>>}
Rates == 1..MaxRate

InitAlign ==
    /\ InitPipe("idle") /\ mode = "mix" /\ nr_available
    /\ fn_pc = "call"
    /\ fn_in \in [vocal_beats : BeatSeqs, vocal_sr : Rates, mr_beats : BeatSeqs, mr_sr : Rates]
    /\ fn_out = <<>>

CallAlign ==
    /\ fn_pc = "call"
    /\ fn_out' = ai_optimize_beat_alignment(fn_in.vocal_beats, fn_in.vocal_sr,
                                            fn_in.mr_beats, fn_in.mr_sr)
    /\ fn_pc' = "ret"
    /\ UNCHANGED <<fn_in, pipeVars>>

NextAlign == CallAlign

SpecAlign == InitAlign /\ [][NextAlign]_vars

----------------------------------------------------------------------------
(* Properties *)

Range(seq) == {seq[i] : i \in 1..Len(seq)}
IsPrefix(a, b) == Len(a) <= Len(b) /\ \A i \in 1..Len(a) : a[i] = b[i]
Ops(fx) == [i \in 1..Len(fx) |-> fx[i].op]
ChainOps == <<"normalize", "low_pass_filter", "compress_dynamic_range",
              "apply_bass_boost", "normalize">>

\* C1: for every loudness d, ai_optimize_parameters returns the bundle of the
\* first matching row: d < -30 gives {2.0, 3500}, -30 <= d < -20 gives
\* {1.8, 4000}, d >= -20 gives {1.5, 4500} (boost factors in tenths).
C1_ThresholdTable ==
    (fn_pc = "ret" /\ ~fn_in.raises) =>
        LET d == fn_in.dBFS IN
        /\ d < -30 * DbScale => fn_out = [boost_factor |-> 20, lowpass_cutoff |-> 3500]
        /\ (-30 * DbScale <= d /\ d < -20 * DbScale)
               => fn_out = [boost_factor |-> 18, lowpass_cutoff |-> 4000]
        /\ d >= -20 * DbScale => fn_out = [boost_factor |-> 15, lowpass_cutoff |-> 4500]

C1_Witness ==
    /\ fn_pc = "ret" /\ ~fn_in.raises
    /\ fn_in.dBFS = -30 * DbScale
    /\ fn_out = [boost_factor |-> 18, lowpass_cutoff |-> 4000]

\* C2: for non-empty beat sequences and positive sample rates, the offset
\* returned by ai_optimize_beat_alignment is the difference of the first beat
\* times (accompaniment minus vocal) when it lies in [-5, 5], 5 above, -5
\* below; every returned offset, the 0 of the except clause included, lies in
\* [-5, 5].
C2_ClampedOffset ==
    fn_pc = "ret" =>
        LET r == fn_out
            n == fn_in.mr_beats[1] * fn_in.vocal_sr - fn_in.vocal_beats[1] * fn_in.mr_sr
            d == fn_in.mr_sr * fn_in.vocal_sr
        IN  /\ r[2] > 0
            /\ -ClampSec * r[2] <= r[1] /\ r[1] <= ClampSec * r[2]
            /\ IF Len(fn_in.mr_beats) > 0 /\ Len(fn_in.vocal_beats) > 0
               THEN /\ (-ClampSec * d <= n /\ n <= ClampSec * d) => r[1] * d = n * r[2]
                    /\ n > ClampSec * d => r = <<ClampSec, 1>>
                    /\ n < -ClampSec * d => r = <<-ClampSec, 1>>
               ELSE r = <<0, 1>>

C2_Witness ==
    /\ fn_pc = "ret"
    /\ Len(fn_in.mr_beats) > 0 /\ Len(fn_in.vocal_beats) > 0
    /\ fn_in.mr_beats[1] * fn_in.vocal_sr - fn_in.vocal_beats[1] * fn_in.mr_sr
           < -ClampSec * fn_in.mr_sr * fn_in.vocal_sr
    /\ fn_out = <<-ClampSec, 1>>

(* Positions of main() by stage *)
DecodePcs == {"submit_vocal_lib", "submit_mr_lib", "submit_vocal_pydub", "submit_mr_pydub",
              "join_vocal_lib", "join_mr_lib", "join_vocal_pydub", "join_mr_pydub",
              "exit_decode_pool"}
BeatPcs == {"submit_vocal_beats", "submit_mr_beats", "join_vocal_beats", "join_mr_beats",
            "exit_beats_pool"}
Aligned == mode = "mix" /\ "align" \in Range(stages)
BothBeats == Len(vocal_beats) > 0 /\ Len(mr_beats) > 0
DecodedVocal == val_int["vocal_pydub"]
DecodedMr == val_int["mr_pydub"]

\* C3: the mixed output length is max(vocal length, accompaniment length) for
\* every vocal length after alignment and effects and every accompaniment
\* length: the length reconciliation always completes, the repeated
\* accompaniment covers the vocal, and the overlay keeps the common length.
C3_MixedLengthIsMax ==
    (mode = "mix" /\ "reconcile" \in Range(stages)) =>
        /\ failedAt # "reconcile"
        /\ vocal_audio = Max(recon.vocal, recon.mr)
        /\ mr_audio = Max(recon.vocal, recon.mr)
        /\ recon.vocal > recon.mr =>
               /\ recon.repeat_times = (recon.vocal \div recon.mr) + 1
               /\ recon.mr * recon.repeat_times >= recon.vocal
        /\ mixed_audio # -1 => mixed_audio = Max(recon.vocal, recon.mr)

\* C4: when the beat sequence of the vocal or of the accompaniment is empty,
\* ai_optimize_beat_alignment is not called, the vocal enters the effect chain
\* as decoded, the "skipped" warning is shown and no offset is written, and
\* main() goes on to the effect chain.
C4_SkipOnEmptyBeats ==
    (Aligned /\ ~BothBeats) =>
        /\ offset = NoOffset
        /\ "offset_written" \notin ui
        /\ "warn_short_vocal" \notin ui
        /\ "warn_beat_skip" \in ui
        /\ failedAt \notin {"decode", "beats"}
        /\ pc # "error" \/ failedAt \in {"vocal_fx", "reconcile", "export"}
        /\ pc = "vocal_fx" => (vocal_audio = DecodedVocal /\ vocal_fx = <<>>)

C4_Witness ==
    /\ pc = "vocal_fx"
    /\ vocal_beats = <<>> /\ mr_beats # <<>>
    /\ "warn_beat_skip" \in ui
    /\ vocal_audio = DecodedVocal /\ DecodedVocal > 0

\* C5 as amended: with both beat sequences non-empty the offset changes the
\* vocal only.  offset > 0 prepends int(offset * 1000) ms of silence; offset < 0
\* removes trim_ms = -int(offset * 1000) ms from the start when trim_ms is
\* less than the vocal length; when the vocal length is less than OR EQUAL TO
\* trim_ms the vocal is unchanged and a warning is shown; offset = 0 leaves the
\* vocal unchanged.  Accompaniment beat 0 and vocal beat 22050 at 44100 Hz give
\* -0.5 s and a vocal shortened by 500 ms.
C5_OffsetApplied ==
    (Aligned /\ BothBeats /\ pc = "vocal_fx") =>
        LET trim_ms == -OffsetMs(offset) IN
        /\ offset # NoOffset
        /\ "offset_written" \in ui
        /\ mr_audio = DecodedMr
        /\ vocal_audio >= 0
        /\ offset[1] > 0 =>
               (vocal_audio = DecodedVocal + OffsetMs(offset) /\ "warn_short_vocal" \notin ui)
        /\ (offset[1] < 0 /\ trim_ms < DecodedVocal) =>
               (vocal_audio = DecodedVocal - trim_ms /\ "warn_short_vocal" \notin ui)
        /\ (offset[1] < 0 /\ DecodedVocal <= trim_ms) =>
               (vocal_audio = DecodedVocal /\ "warn_short_vocal" \in ui)
        /\ offset[1] = 0 =>
               (vocal_audio = DecodedVocal /\ "warn_short_vocal" \notin ui)
        /\ (mr_beats[1] = 0 /\ vocal_beats[1] = 22050 /\ mr_sr = 44100 /\ vocal_sr = 44100) =>
               /\ offset = <<-1, 2>>
               /\ DecodedVocal > 500 => vocal_audio = DecodedVocal - 500

C5_Witness ==
    /\ Aligned /\ BothBeats /\ pc = "vocal_fx"
    /\ mr_beats[1] = 0 /\ vocal_beats[1] = 22050 /\ mr_sr = 44100 /\ vocal_sr = 44100
    /\ offset = <<-1, 2>>
    /\ DecodedVocal = 4000 /\ vocal_audio = 3500

\* C5 as stated: the vocal is trimmed whenever it is long enough, and left
\* unchanged with a warning only if it is shorter than the trim amount.
C5_Original ==
    (Aligned /\ BothBeats /\ pc = "vocal_fx" /\ OffsetMs(offset) < 0) =>
        LET trim_ms == -OffsetMs(offset) IN
        /\ DecodedVocal >= trim_ms =>
               (vocal_audio = DecodedVocal - trim_ms /\ "warn_short_vocal" \notin ui)
        /\ DecodedVocal < trim_ms =>
               (vocal_audio = DecodedVocal /\ "warn_short_vocal" \in ui)

NoDuplicates(seq) == \A i, j \in 1..Len(seq) : seq[i] = seq[j] => i = j
Raised(ts) == \E t \in ts : task[t] = "raised"

\* C6: in both modes, once a stage raises, every later stage of the request
\* is skipped, an error is reported, and neither the audio player nor the
\* download button is emitted; an output is emitted only after every stage
\* has completed, and no statement of the request runs twice.
C6_AbortOnError ==
    /\ failedAt # "none" =>
           /\ pc = "error"
           /\ ~ENABLED Next
           /\ "err_request" \in ui
           /\ emitted = {}
    /\ pc = "error" => failedAt # "none"
    /\ Raised(DecodeTasks) =>
           /\ pc \in DecodePcs \cup {"error"}
           /\ \A t \in BeatTasks : task[t] = "none"
           /\ emitted = {}
    /\ Raised(BeatTasks) => (pc \in BeatPcs \cup {"error"} /\ emitted = {})
    /\ emitted # {} =>
           /\ failedAt = "none" /\ pending_exc = "none"
           /\ \A t \in Tasks : task[t] # "raised"
           /\ \A i \in 1..Len(stages) : stages[i] = Order[i]
           /\ "export" \in Range(stages)
    /\ NoDuplicates(stages)

C6_Witness ==
    /\ mode = "mix" /\ pc = "error" /\ failedAt = "export"
    /\ mixed_audio # -1
    /\ emitted = {}

\* C7 as amended: when nr is None the field-recording request fails:
\* process_festival_audio raises before any effect is applied, the error is
\* reported, and no output is emitted.
C7_NoReducerFails ==
    (mode = "festival" /\ ~nr_available) =>
        /\ emitted = {}
        /\ processed_fx = <<>>
        /\ "err_nr_missing" \in ui
        /\ "f_process" \in Range(stages) =>
               /\ pc = "error"
               /\ failedAt = "festival_fx"
               /\ {"err_festival", "err_request"} \subseteq ui

C7_Witness ==
    /\ mode = "festival" /\ ~nr_available
    /\ "f_process" \in Range(stages)
    /\ pc = "error" /\ failedAt = "festival_fx"

\* C7 as stated: when nr is None the field-recording request does not fail
\* at the effect chain: the rest of the chain is applied to the recording.
C7_Original ==
    (mode = "festival" /\ ~nr_available /\ "f_process" \in Range(stages)) =>
        /\ failedAt # "festival_fx"
        /\ Len(processed_fx) > 0

\* C8: an error of the beat-detection algorithm on either track does not
\* abort the auto-mix request: alignment is skipped and main() goes on.
C8_BeatErrorNotFatal ==
    (mode = "mix" /\ Raised(BeatTasks)) => (pc # "error" /\ failedAt # "beats")

SequentialTail == <<"align", "vocal_fx", "reconcile", "gain", "overlay", "normalize",
                    "export", "st_audio", "st_download">>
After(seq, x) == SubSeq(seq, IndexOf(seq, x) + 1, Len(seq))

\* C10: in every interleaving, no beat-analysis task is submitted before the
\* four decode tasks have completed, the offset is computed only after both
\* beat-analysis tasks have completed, and after the second barrier no task is
\* running and the stages run one at a time in the order alignment, vocal
\* effects, length reconciliation, gain, overlay, normalize, export.
C10_Barriers ==
    mode = "mix" =>
        /\ (\E b \in BeatTasks : task[b] # "none" \/ pc = SubmitAt[b]) =>
               \A t \in DecodeTasks : task[t] \in {"ok", "raised"}
        /\ (offset # NoOffset \/ Aligned \/ pc = "align") =>
               \A b \in BeatTasks : task[b] \in {"ok", "raised"}
        /\ "exit_beats_pool" \in Range(stages) =>
               /\ \A t \in Tasks : task[t] # "pending"
               /\ IsPrefix(After(stages, "exit_beats_pool"), SequentialTail)
               /\ pc \in Range(SequentialTail) =>
                      pc = SequentialTail[Len(After(stages, "exit_beats_pool")) + 1]

C10_Witness ==
    /\ mode = "mix" /\ pc = "join_vocal_beats"
    /\ task["vocal_beats"] = "pending" /\ task["mr_beats"] = "ok"

====
